---- MODULE Spec2Model ----
(***************************************************************************)
(* KAREN: the review engine (Review.ts), the issue codec and the comment   *)
(* publication of the issue service (Issue.ts), the settings schema        *)
(* (Settings.ts) and the review command (Command.ts), as state machines.   *)
(*                                                                         *)
(* Numbers.  A score is the quotient of two sums of weights; it is kept as *)
(* the pair [num, den] the code divides, and every comparison the code     *)
(* makes on it is made by cross-multiplication.  Weights, story points and *)
(* confidences are integers.                                               *)
(*                                                                         *)
(* Text.  A serialized issue and a patch are sequences of lines, a line    *)
(* being a tuple of tokens.  A JavaScript string is truthy iff it is not   *)
(* empty: a text is truthy iff it has at least one line.                   *)
(***************************************************************************)
EXTENDS Integers, Sequences, FiniteSets, TLC

VARIABLES
    settings,         \* the settings loaded at start (getSettings), read-only afterwards
    reviewStore,      \* Store<Review>(["reviews"]): key -> Review or NoReview
    rv,               \* the ReviewService call in progress, or the last one with its result
    myCommentsStore,  \* Store<Comment>(["my-comments"]): key -> comment id, or NoComment
    remote,           \* the issue tracker: key -> the comments the tool created, in id order
    pb,               \* the upsertComment call in progress, or the last one with its result
    args,             \* pure-function specifications: the arguments
    ret,              \* pure-function specifications: the result
    issueStore,       \* Store<Issue>(["issues"]): key -> Issue, in key order
    cmd,              \* the `karen review` invocation in progress, or the last one
    tracker,          \* the issue tracker: key -> the issue as it is upstream
    editStore,        \* Store<Issue>(["issues-edit"]): key -> Issue or NoIssue
    ed,               \* the pull, edit, push, diff, list or remove command in progress, or the last one
    pull              \* the pullIssues(board) call in progress, or the last one

vars == <<settings, reviewStore, rv, myCommentsStore, remote, pb, args, ret, issueStore, cmd,
          tracker, editStore, ed, pull>>

(***************************************************************************)
(* Bounds of the model.                                                    *)
(***************************************************************************)
MaxWeight == 2
MaxChecklist == 3
MaxScale == 3
MaxPoints == 8
MaxDen == 3

MinWeight == 0 - MaxWeight

Abs(x) == IF x < 0 THEN 0 - x ELSE x

RECURSIVE SeqsUpTo(_, _)
SeqsUpTo(S, n) ==
    IF n = 0 THEN {<<>>}
    ELSE LET shorter == SeqsUpTo(S, n - 1)
         IN  shorter \cup {Append(s, x) : s \in {t \in shorter : Len(t) = n - 1}, x \in S}

(***************************************************************************)
(* Settings (Settings.ts).  A checklist entry is {key, description,        *)
(* weight}; the description is a function of the key and is left out.  The *)
(* schema types weight as "number" and nothing more: wtype is what typeof  *)
(* gives for the value read from settings.json.                            *)
(***************************************************************************)
ChecklistKeys == <<"a", "b", "c", "d", "e">>

Models == {"m1", "m2"}
ReviewModel == "m1"
EstimateModel == "m3"

ScaleValues == {1, 2, 3, 5, 8}
DefaultScale == <<1, 2, 3, 5, 8>>

EntriesOf(ws, types) ==
    [i \in 1..Len(ws) |-> [key |-> ChecklistKeys[i], weight |-> ws[i], wtype |-> types[i]]]

NumberTypes(n) == [i \in 1..n |-> "number"]

\* settings.json candidates: any checklist of numeric weights, and checklists whose
\* first weight is a string
CandidateChecklists ==
    {EntriesOf(ws, NumberTypes(Len(ws))) : ws \in SeqsUpTo(MinWeight..MaxWeight, MaxChecklist)}
    \cup {EntriesOf(ws, [NumberTypes(Len(ws)) EXCEPT ![1] = "string"]) :
            ws \in {w \in SeqsUpTo({0}, MaxChecklist) : Len(w) > 0}}

CandidateScales ==
    {s \in SeqsUpTo(ScaleValues, MaxScale) : Len(s) > 0} \cup {DefaultScale}

MakeSettings(checklist, scale) ==
    [checklist |-> checklist, scale |-> scale,
     reviewModel |-> ReviewModel, estimateModel |-> EstimateModel]

\* validateSettings: the JSON schema of SettingsSchemaV1 (types and required fields)
validateSettings(s) ==
    \A i \in 1..Len(s.checklist) : s.checklist[i].wtype = "number"

\* the checklist and scale of DefaultSettings, with two entries and the scenario's weights
ScenarioChecklist == EntriesOf(<<1, 3>>, NumberTypes(2))
ScenarioSettings == MakeSettings(ScenarioChecklist, DefaultScale)

(***************************************************************************)
(* Review.ts: calculateScore, roundScale, normalizeEstimate.               *)
(***************************************************************************)
\* value ? ... : ... on a ChecklistResult: an undefined value is falsy
ValueTruthy(r) == "value" \in DOMAIN r /\ r.value

RECURSIVE SumWeights(_, _)
SumWeights(checklist, countAll) ==
    IF checklist = <<>> THEN 0
    ELSE LET r == Head(checklist)
         IN  (IF countAll \/ ValueTruthy(r) THEN r.entry.weight ELSE 0)
             + SumWeights(Tail(checklist), countAll)

\* score / totalWeight, as the pair the code divides
calculateScore(checklist) ==
    [num |-> SumWeights(checklist, FALSE), den |-> SumWeights(checklist, TRUE)]

\* Math.abs(a - value) for value = [num, den], scaled by |den|
Distance(a, value) == Abs(a * value.den - value.num)

\* the reducer with the comparison turned round
CloserFlipped(a, b, value) == IF Distance(a, value) > Distance(b, value) THEN a ELSE b

\* the reducer of roundScale: (a, b) => Math.abs(a - value) < Math.abs(b - value) ? a : b
Closer(a, b, value) == IF Distance(a, value) < Distance(b, value) THEN a ELSE b

RECURSIVE ReduceScale(_, _, _)
ReduceScale(acc, rest, value) ==
    IF rest = <<>> THEN acc
    ELSE ReduceScale(Closer(acc, Head(rest), value), Tail(rest), value)

\* scale.reduce(reducer, scale[0])
roundScale(value, scale) == ReduceScale(scale[1], scale, value)

\* Math.round of a quotient that is NaN or infinite (den = 0)
NotFinite == 0 - 1000

\* Math.round(num / den): floor(num / den + 1/2)
MathRound(num, den) ==
    IF den > 0 THEN (2 * num + den) \div (2 * den)
    ELSE IF den < 0 THEN (den - 2 * num) \div (0 - 2 * den)
    ELSE NotFinite

\* ((x * score) + x) / 2 as a pair
Average(x, score) == [num |-> x * (score.num + score.den), den |-> 2 * score.den]

\* the confidence weighted by the score alone: Math.round(confidence * score)
normalizeEstimateByProduct(score, estimate, s) ==
    [confidence |-> MathRound(estimate.confidence * score.num, score.den),
     storyPoints |-> roundScale(Average(estimate.storyPoints, score), s.scale)]

normalizeEstimate(score, estimate, s) ==
    LET averageConfidence == Average(estimate.confidence, score)
        averageStoryPoints == Average(estimate.storyPoints, score)
    IN  [confidence |-> MathRound(averageConfidence.num, averageConfidence.den),
         storyPoints |-> roundScale(averageStoryPoints, s.scale)]

\* JSON.parse(response) of the checklist request: a boolean per configured key
Answers(n) == [1..n -> BOOLEAN]

\* the responses the service can parse: objects that hold a boolean for some of
\* the configured keys, a key may be missing
Responses(n) == UNION {[present -> BOOLEAN] : present \in SUBSET (1..n)}

\* runChecklist's last statement: one ChecklistResult per configured entry
ChecklistResults(s, data) ==
    [i \in 1..Len(s.checklist) |->
        IF i \in DOMAIN data
        THEN [entry |-> s.checklist[i], value |-> data[i]]
        ELSE [entry |-> s.checklist[i]]]

(***************************************************************************)
(* Issue.ts: issues, serializeIssue, diffIssue.  An issue is {id, self,    *)
(* key, fields}; id, self, created, updated and creator are functions of   *)
(* the key here, and the comments are not serialized.                      *)
(***************************************************************************)
Keys == {"K1", "K2"}
Summaries == {"s1"}
NullDescription == "<null>"
Descriptions == {NullDescription, "", "h1. A"}

\* the issues of the local store: K1 in every description, K2 in one
Issues ==
    {issue \in [key : Keys, summary : Summaries, description : Descriptions] :
        issue.key = "K2" => issue.description = "h1. A"}

\* Jira2Md.to_markdown on the descriptions of the model
to_markdown(text) == IF text = "h1. A" THEN "# A" ELSE text

\* description || ""
OrEmpty(description) == IF description = NullDescription THEN "" ELSE description

\* `---\n${header}---\n\n${body}`, the header being the YAML of the meta
serializeIssue(issue) ==
    << <<"---">>,
       <<"id:", issue.key, "-id">>,
       <<"key:", issue.key>>,
       <<"summary:", issue.summary>>,
       <<"self:", issue.key, "-url">>,
       <<"created:", issue.key, "-created">>,
       <<"updated:", issue.key, "-updated">>,
       <<"creator:", issue.key, "-creator">>,
       <<"---">>,
       <<"">>,
       <<to_markdown(OrEmpty(issue.description))>> >>

RECURSIVE HunkLines(_, _)
HunkLines(original, updated) ==
    IF original = <<>> /\ updated = <<>> THEN <<>>
    ELSE IF original = <<>> THEN << <<"+">> \o Head(updated) >> \o HunkLines(<<>>, Tail(updated))
    ELSE IF updated = <<>> THEN << <<"-">> \o Head(original) >> \o HunkLines(Tail(original), <<>>)
    ELSE IF Head(original) = Head(updated)
         THEN << <<" ">> \o Head(original) >> \o HunkLines(Tail(original), Tail(updated))
         ELSE << <<"-">> \o Head(original), <<"+">> \o Head(updated) >>
              \o HunkLines(Tail(original), Tail(updated))

\* Diff.createPatch(filename, original, updated): the four header lines, then the
\* hunk when the texts differ
createPatch(filename, original, updated) ==
    << <<"Index:", filename>>, <<"====">>, <<"---", filename>>, <<"+++", filename>> >>
    \o (IF original = updated THEN <<>>
        ELSE << <<"@@">> >> \o HunkLines(original, updated))

\* fmtLine of diffIssue: colours the lines that start with + or -
fmtLine(line) ==
    IF line[1] \in {"+", "+++"} THEN <<"green">> \o line
    ELSE IF line[1] \in {"-", "---"} THEN <<"red">> \o line
    ELSE line

diffIssue(issue, edited) ==
    LET patch == createPatch(issue.key, serializeIssue(issue), serializeIssue(edited))
    IN  [i \in 1..Len(patch) |-> fmtLine(patch[i])]

\* truthiness of a JavaScript string
Truthy(text) == Len(text) > 0

\* System.ts hash: the SHA-512 digest of a text in hexadecimal, taken as
\* collision-free
hash(text) == <<"sha512", text>>

(***************************************************************************)
(* Issue.ts: deserializeEdit.  The text is read as its tokens, a line      *)
(* break being the token "\n"; line breaks and blanks around the body are  *)
(* left out of the description.                                            *)
(***************************************************************************)
\* the strings of the model that hold the sequence "---", with what stands
\* before and after it
Delimited ==
    ("---" :> <<"", "">>) @@ ("a---b" :> <<"a", "b">>) @@ ("x---y" :> <<"x", "y">>)

\* token.split("---")
Pieces(token) == IF token \in DOMAIN Delimited THEN Delimited[token] ELSE <<token>>

NonEmpty(token) == IF token = "" THEN <<>> ELSE <<token>>

\* lines.join("\n"), token by token
RECURSIVE Tokens(_)
Tokens(text) ==
    IF text = <<>> THEN <<>>
    ELSE IF Len(text) = 1 THEN Head(text)
    ELSE Head(text) \o <<"\n">> \o Tokens(Tail(text))

\* text.split("---"): the segments between the occurrences of the delimiter
RECURSIVE SplitAt(_, _, _)
SplitAt(tokens, current, done) ==
    IF tokens = <<>> THEN Append(done, current)
    ELSE LET p == Pieces(Head(tokens))
         IN  IF Len(p) = 1
             THEN SplitAt(Tail(tokens), Append(current, p[1]), done)
             ELSE SplitAt(Tail(tokens), NonEmpty(p[2]), Append(done, current \o NonEmpty(p[1])))

split(text) == SplitAt(Tokens(text), <<>>, <<>>)

\* the lines of a segment, blank lines left out
RECURSIVE LinesOf(_, _, _)
LinesOf(tokens, current, done) ==
    LET closed == IF current = <<>> THEN done ELSE Append(done, current)
    IN  IF tokens = <<>> THEN closed
        ELSE IF Head(tokens) = "\n" THEN LinesOf(Tail(tokens), <<>>, closed)
        ELSE IF Head(tokens) = "" THEN LinesOf(Tail(tokens), current, done)
        ELSE LinesOf(Tail(tokens), Append(current, Head(tokens)), done)

\* the names a YAML mapping line of the model can start with
YamlNames == {"id:", "key:", "summary:", "self:", "created:", "updated:", "creator:"}

\* scalars that YAML reads as numbers
NumberTokens == {"123"}

\* Yaml.parse(header) gives an object: every line is `name: value` or `name:`,
\* no name twice
IsYamlObject(lines) ==
    /\ \A i \in 1..Len(lines) : lines[i][1] \in YamlNames
    /\ \A i, j \in 1..Len(lines) : lines[i][1] = lines[j][1] => i = j

\* name in meta
HasName(lines, name) == \E i \in 1..Len(lines) : lines[i][1] = name

\* typeof meta[name] === "string"
IsString(lines, name) ==
    \E i \in 1..Len(lines) :
        /\ lines[i][1] = name
        /\ Len(lines[i]) >= 2
        /\ ~(Len(lines[i]) = 2 /\ lines[i][2] \in NumberTokens)

\* meta[name], a string of the model when it is one token
ValueOf(lines, name) ==
    LET i == CHOOSE j \in 1..Len(lines) : lines[j][1] = name
    IN  IF Len(lines[i]) = 2 THEN lines[i][2] ELSE Tail(lines[i])

\* parseHeader: the YAML of the header checked field by field
parseHeader(segments) ==
    IF Len(segments) < 2 THEN [ok |-> FALSE, error |-> "header is not valid YAML"]
    ELSE LET lines == LinesOf(segments[2], <<>>, <<>>)
         IN  IF ~IsYamlObject(lines) THEN [ok |-> FALSE, error |-> "header is not valid YAML"]
             ELSE IF lines = <<>> THEN [ok |-> FALSE, error |-> "TypeError"]
             ELSE IF ~HasName(lines, "id:") THEN [ok |-> FALSE, error |-> "header missing id"]
             ELSE IF ~HasName(lines, "key:") THEN [ok |-> FALSE, error |-> "header missing key"]
             ELSE IF ~HasName(lines, "summary:")
                  THEN [ok |-> FALSE, error |-> "header missing summary"]
             ELSE IF ~IsString(lines, "id:") THEN [ok |-> FALSE, error |-> "header missing id"]
             ELSE IF ~IsString(lines, "key:") THEN [ok |-> FALSE, error |-> "header missing key"]
             ELSE IF ~IsString(lines, "summary:")
                  THEN [ok |-> FALSE, error |-> "header missing summary"]
             ELSE [ok |-> TRUE,
                   meta |-> [key |-> ValueOf(lines, "key:"),
                             summary |-> ValueOf(lines, "summary:")]]

\* Jira2Md.to_jira on the bodies of the model
to_jira(text) == IF text = "# A" THEN "h1. A" ELSE text

\* a text of several tokens: the model names the texts of one token only
SeveralTokens == "<text>"

\* the description read from the body segment
DescriptionOf(body) ==
    LET words == SelectSeq(body, LAMBDA token : token \notin {"\n", ""})
    IN  IF words = <<>> THEN ""
        ELSE IF Len(words) = 1 THEN to_jira(words[1])
        ELSE SeveralTokens

\* deserializeEdit(text): [, header, body] = text.split("---"); a rejected
\* promise is [ok |-> FALSE]; to_jira of an undefined body throws a TypeError
deserializeEdit(text) ==
    LET segments == split(text)
        header == parseHeader(segments)
    IN  IF ~header.ok THEN header
        ELSE IF Len(segments) < 3 THEN [ok |-> FALSE, error |-> "TypeError"]
        ELSE [ok |-> TRUE, meta |-> header.meta, description |-> DescriptionOf(segments[3])]

\* text with line i left out, and with line i replaced
WithoutLine(text, i) == [j \in 1..(Len(text) - 1) |-> IF j < i THEN text[j] ELSE text[j + 1]]
ReplaceLine(text, i, line) == [text EXCEPT ![i] = line]

\* documents the header of which the user has damaged: the key line removed,
\* a number for the id, no value for the summary, a line that is no YAML, and
\* a text without any delimiter
MalformedDocuments(issue) ==
    LET text == serializeIssue(issue)
    IN  {WithoutLine(text, 3),
         ReplaceLine(text, 2, <<"id:", "123">>),
         ReplaceLine(text, 4, <<"summary:">>),
         ReplaceLine(text, 2, <<"{">>),
         << <<"no header">> >>}

\* documents the user has edited and left well formed: another description,
\* another summary, another key
WellFormedDocuments(issue) ==
    {serializeIssue([issue EXCEPT !.description = d]) : d \in Descriptions}
    \cup {serializeIssue([issue EXCEPT !.summary = "s2"])}
    \cup {serializeIssue([issue EXCEPT !.key = k]) : k \in Keys}

\* what the editor can leave in the temporary file
EditedDocuments(issue) == WellFormedDocuments(issue) \cup MalformedDocuments(issue)

(***************************************************************************)
(* Review.ts: the review store and ReviewService.                          *)
(***************************************************************************)
NoReview == [key |-> "<none>"]

NoModel == "<undefined>"
ModelOptions == {NoModel, "m2"}

\* JSON.parse(response) of the estimate request, in the review engine's specification
Estimates == {[confidence |-> 80, storyPoints |-> 5]}
NoEstimate == [confidence |-> 0, storyPoints |-> 0]

RvTerminal == {"idle", "returned", "failed", "interrupted"}

NoDiff == [key |-> "<none>", hasReview |-> FALSE, isOutdated |-> FALSE, patch |-> <<>>]

RvIdle ==
    [pc |-> "idle", op |-> "none", issue |-> [key |-> "<none>"], force |-> FALSE,
     modelOpt |-> NoModel, model |-> NoModel, checklistModel |-> NoModel,
     estimateModel |-> NoModel, checklist |-> "none", checklistData |-> <<>>,
     estimate |-> "none", estimateData |-> NoEstimate, requests |-> 0,
     path |-> "none", result |-> NoReview, diff |-> NoDiff]

\* Store.get(...).catch(() => null)
StoreGet(store, key) == store[key]

\* a cache that is used only while the issue is the one reviewed
UseCachedIfUnchanged(existing, issue, force) ==
    existing # NoReview /\ ~force /\ existing.issue = issue

\* the force flag read the wrong way round
UseCachedWhenForced(existing, issue, force) == existing # NoReview /\ force

\* Review.review line 131: existing && !options.force
UseCached(existing, issue, force) == existing # NoReview /\ ~force

\* options.model ?? settings.assistant.review.model
ResolveModel(modelOpt, s) == IF modelOpt = NoModel THEN s.reviewModel ELSE modelOpt

\* runChecklist: options.model ?? settings1.model
ChecklistModelOf(modelOpt, s) == IF modelOpt = NoModel THEN s.reviewModel ELSE modelOpt

\* runEstimate: options.model ?? settings.assistant.estimate.model
EstimateModelOf(modelOpt, s) == IF modelOpt = NoModel THEN s.estimateModel ELSE modelOpt

\* a record that stores the raw estimate as the normalized one
MakeReviewRawEstimate(issue, model, checklist, estimate, s) ==
    [key |-> issue.key, model |-> model, score |-> calculateScore(checklist),
     checklist |-> checklist, estimate |-> estimate,
     normalizedEstimate |-> [confidence |-> estimate.confidence,
                             storyPoints |-> estimate.storyPoints],
     issue |-> issue]

\* the record review() builds once both requests have answered
MakeReview(issue, model, checklist, estimate, s) ==
    LET score == calculateScore(checklist)
    IN  [key |-> issue.key, model |-> model, score |-> score, checklist |-> checklist,
         estimate |-> estimate,
         normalizedEstimate |-> normalizeEstimate(score, estimate, s),
         issue |-> issue]

\* a write that waits for the checklist only
ChecklistAnswered(call) == call.checklist = "done"

\* await Promise.all([runChecklist, runEstimate]) has resolved
BothAnswered(call) == call.checklist = "done" /\ call.estimate = "done"

\* review(issue, options) up to its first await on the network: the call has
\* returned the stored Review, or has issued both generate requests
ReviewStart(issue, force, modelOpt) ==
    LET existing == StoreGet(reviewStore, issue.key)
        model == ResolveModel(modelOpt, settings)
    IN  IF UseCached(existing, issue, force)
        THEN [RvIdle EXCEPT !.pc = "returned", !.op = "review", !.issue = issue,
                            !.force = force, !.modelOpt = modelOpt,
                            !.path = "cached", !.result = existing]
        ELSE [RvIdle EXCEPT !.pc = "requests", !.op = "review", !.issue = issue,
                            !.force = force, !.modelOpt = modelOpt,
                            !.model = model,
                            !.checklistModel = ChecklistModelOf(model, settings),
                            !.estimateModel = EstimateModelOf(model, settings),
                            !.checklist = "inflight", !.estimate = "inflight",
                            !.requests = 2, !.path = "fresh"]

\* review(issue, {force: false}) with a stored review: return existing
ReviewCached ==
    /\ rv.pc \in RvTerminal
    /\ \E issue \in Issues, force \in BOOLEAN, modelOpt \in ModelOptions :
          /\ UseCached(StoreGet(reviewStore, issue.key), issue, force)
          /\ rv' = ReviewStart(issue, force, modelOpt)
    /\ UNCHANGED <<tracker, editStore, ed, pull, issueStore, cmd, settings, reviewStore, myCommentsStore, remote, pb, args, ret>>

\* review(issue, options) recomputing: both generate requests are issued
ReviewRecompute ==
    /\ rv.pc \in RvTerminal
    /\ \E issue \in Issues, force \in BOOLEAN, modelOpt \in ModelOptions :
          /\ ~UseCached(StoreGet(reviewStore, issue.key), issue, force)
          /\ rv' = ReviewStart(issue, force, modelOpt)
    /\ UNCHANGED <<tracker, editStore, ed, pull, issueStore, cmd, settings, reviewStore, myCommentsStore, remote, pb, args, ret>>

\* the checklist request answers
ChecklistOk ==
    /\ rv.pc = "requests" /\ rv.checklist = "inflight"
    /\ \E data \in Responses(Len(settings.checklist)) :
          rv' = [rv EXCEPT !.checklist = "done", !.checklistData = data]
    /\ UNCHANGED <<tracker, editStore, ed, pull, issueStore, cmd, settings, reviewStore, myCommentsStore, remote, pb, args, ret>>

\* the estimate request answers
EstimateOk ==
    /\ rv.pc = "requests" /\ rv.estimate = "inflight"
    /\ \E estimate \in Estimates :
          rv' = [rv EXCEPT !.estimate = "done", !.estimateData = estimate]
    /\ UNCHANGED <<tracker, editStore, ed, pull, issueStore, cmd, settings, reviewStore, myCommentsStore, remote, pb, args, ret>>

\* a call that ended without a result keeps what it asked and how it ended
Ended(call, how) ==
    [RvIdle EXCEPT !.pc = how, !.op = call.op, !.issue = call.issue, !.force = call.force,
                   !.modelOpt = call.modelOpt, !.model = call.model,
                   !.requests = call.requests, !.path = call.path]

\* ollama.generate rejects or JSON.parse throws: Promise.all rejects, review() throws
ChecklistFail ==
    /\ rv.pc = "requests" /\ rv.checklist = "inflight"
    /\ rv' = Ended(rv, "failed")
    /\ UNCHANGED <<tracker, editStore, ed, pull, issueStore, cmd, settings, reviewStore, myCommentsStore, remote, pb, args, ret>>

EstimateFail ==
    /\ rv.pc = "requests" /\ rv.estimate = "inflight"
    /\ rv' = Ended(rv, "failed")
    /\ UNCHANGED <<tracker, editStore, ed, pull, issueStore, cmd, settings, reviewStore, myCommentsStore, remote, pb, args, ret>>

\* the process is killed while review() awaits
Interrupt ==
    /\ rv.pc = "requests"
    /\ rv' = Ended(rv, "interrupted")
    /\ UNCHANGED <<tracker, editStore, ed, pull, issueStore, cmd, settings, reviewStore, myCommentsStore, remote, pb, args, ret>>

\* lines 138-149: score, normalize, reviewStore.put(issue.key, review)
Persist ==
    /\ rv.pc = "requests"
    /\ BothAnswered(rv)
    /\ LET checklist == ChecklistResults(settings, rv.checklistData)
           review == MakeReview(rv.issue, rv.model, checklist, rv.estimateData, settings)
       IN  /\ reviewStore' = [reviewStore EXCEPT ![rv.issue.key] = review]
           /\ rv' = [Ended(rv, "returned") EXCEPT !.result = review]
    /\ UNCHANGED <<tracker, editStore, ed, pull, issueStore, cmd, settings, myCommentsStore, remote, pb, args, ret>>

\* diff with the test of the patch negated
ReviewDiffNegated(review, issue) ==
    IF review = NoReview
    THEN [key |-> issue.key, hasReview |-> FALSE, isOutdated |-> TRUE, patch |-> <<>>]
    ELSE LET patch == diffIssue(review.issue, issue)
         IN  IF ~Truthy(patch)
             THEN [key |-> issue.key, hasReview |-> TRUE, isOutdated |-> TRUE, patch |-> patch]
             ELSE [key |-> issue.key, hasReview |-> TRUE, isOutdated |-> FALSE, patch |-> <<>>]

\* ReviewService.diff(issue)
ReviewDiffOf(review, issue) ==
    IF review = NoReview
    THEN [key |-> issue.key, hasReview |-> FALSE, isOutdated |-> TRUE, patch |-> <<>>]
    ELSE LET patch == diffIssue(review.issue, issue)
         IN  IF Truthy(patch)
             THEN [key |-> issue.key, hasReview |-> TRUE, isOutdated |-> TRUE, patch |-> patch]
             ELSE [key |-> issue.key, hasReview |-> TRUE, isOutdated |-> FALSE, patch |-> <<>>]

Diff ==
    /\ rv.pc \in RvTerminal
    /\ \E issue \in Issues :
          rv' = [RvIdle EXCEPT !.pc = "returned", !.op = "diff", !.issue = issue,
                               !.diff = ReviewDiffOf(StoreGet(reviewStore, issue.key), issue)]
    /\ UNCHANGED <<tracker, editStore, ed, pull, issueStore, cmd, settings, reviewStore, myCommentsStore, remote, pb, args, ret>>

(***************************************************************************)
(* Review.ts: fmtMarkdown, fmtJira and publish.  A rendered report is the  *)
(* record of what the template prints.                                     *)
(***************************************************************************)
fmtScore(review) == MathRound(100 * review.score.num, review.score.den)

\* `${Math.round(review.normalizedEstimate.confidence)}%`
fmtConfidence(review) == MathRound(review.normalizedEstimate.confidence, 1)

fmtMarkdown(review) ==
    [markup |-> "markdown",
     heading |-> review.issue.key,
     checklist |-> [i \in 1..Len(review.checklist) |->
                      <<IF ValueTruthy(review.checklist[i]) THEN "check" ELSE "cross",
                        review.checklist[i].entry.key>>],
     score |-> fmtScore(review),
     storyPoints |-> review.normalizedEstimate.storyPoints,
     confidence |-> fmtConfidence(review),
     model |-> review.model]

\* Jira2Md.to_jira: the same report in the tracker's markup
fmtJira(review) == [fmtMarkdown(review) EXCEPT !.markup = "jira"]

(***************************************************************************)
(* Issue.ts: getComment, postComment, updateComment, upsertComment.        *)
(* remote[k] holds the bodies of the comments the tool created on issue k, *)
(* a comment's id being its position.                                      *)
(***************************************************************************)
MaxComments == 2

NoComment == [id |-> 0]
NoBody == [markup |-> "<none>"]

PbTerminal == {"idle", "returned", "failed", "killed"}

PbIdle ==
    [pc |-> "idle", key |-> "<none>", body |-> NoBody, cached |-> NoComment,
     fetched |-> NoBody, posts |-> 0, puts |-> 0, published |-> FALSE, clean |-> TRUE,
     prevOk |-> FALSE, prevKey |-> "<none>", prevBody |-> NoBody,
     prevWrites |-> 0, prevPublished |-> FALSE]

\* the reviews publish is called with: stored reviews of the issue, two answers apart
PublishedIssue(k) == [key |-> k, summary |-> "s1", description |-> "h1. A"]

ReviewsToPublish ==
    {MakeReview(PublishedIssue(k), ReviewModel, ChecklistResults(ScenarioSettings, data),
                [confidence |-> 80, storyPoints |-> 5], ScenarioSettings) :
        k \in Keys, data \in {<<TRUE, FALSE>>, <<TRUE, TRUE>>}}

\* a comment body edited on the tracker by someone else
EditedBody(body) == [body EXCEPT !.markup = "edited"]

\* truthiness of a body string: fmtJira never renders the empty string
BodyTruthy(body) == body # NoBody

\* a lookup that never finds the recorded comment
HasCachedNever(cached) == FALSE

\* upsertComment line 398: if (cached)
HasCached(cached) == cached # NoComment

\* the test of line 401 without the comparison of the bodies
NeedsUpdateAlways(body, commentBody) == BodyTruthy(body) /\ BodyTruthy(commentBody)

\* the test of line 401 with the comparison of the bodies inverted
NeedsUpdateInverted(body, commentBody) ==
    BodyTruthy(body) /\ BodyTruthy(commentBody) /\ commentBody = body

\* upsertComment line 401: body && comment.body && comment.body !== body
NeedsUpdate(body, commentBody) ==
    BodyTruthy(body) /\ BodyTruthy(commentBody) /\ commentBody # body

\* publish(review): upsertComment(review.issue, fmtJira(review)) up to its
\* first request, the mapping read
UpsertStart(review) ==
    LET cached == StoreGet(myCommentsStore, review.issue.key)
    IN  [PbIdle EXCEPT !.pc = IF HasCached(cached) THEN "get" ELSE "post",
                       !.key = review.issue.key, !.body = fmtJira(review),
                       !.cached = cached,
                       !.prevOk = (pb.pc = "returned" /\ pb.clean),
                       !.prevKey = pb.key, !.prevBody = pb.body,
                       !.prevWrites = pb.posts + pb.puts,
                       !.prevPublished = pb.published]

Upsert ==
    /\ pb.pc \in PbTerminal
    /\ \E review \in ReviewsToPublish : pb' = UpsertStart(review)
    /\ UNCHANGED <<tracker, editStore, ed, pull, issueStore, cmd, settings, reviewStore, rv, myCommentsStore, remote, args, ret>>

\* getComment answers; the bodies are compared
GetCommentOk ==
    /\ pb.pc = "get"
    /\ pb.cached.id \in 1..Len(remote[pb.key])
    /\ LET comment == remote[pb.key][pb.cached.id]
       IN  pb' = IF NeedsUpdate(pb.body, comment)
                 THEN [pb EXCEPT !.pc = "put", !.fetched = comment]
                 ELSE [pb EXCEPT !.pc = "returned", !.fetched = comment,
                                 !.published = FALSE]
    /\ UNCHANGED <<tracker, editStore, ed, pull, issueStore, cmd, settings, reviewStore, rv, myCommentsStore, remote, args, ret>>

\* getComment: if (!response.ok) throw response
GetCommentFail ==
    /\ pb.pc = "get"
    /\ pb' = [pb EXCEPT !.pc = "failed"]
    /\ UNCHANGED <<tracker, editStore, ed, pull, issueStore, cmd, settings, reviewStore, rv, myCommentsStore, remote, args, ret>>

\* updateComment: PUT of the body on the cached comment id
UpdateCommentOk ==
    /\ pb.pc = "put"
    /\ remote' = [remote EXCEPT ![pb.key][pb.cached.id] = pb.body]
    /\ pb' = [pb EXCEPT !.pc = "returned", !.puts = pb.puts + 1, !.published = TRUE]
    /\ UNCHANGED <<tracker, editStore, ed, pull, issueStore, cmd, settings, reviewStore, rv, myCommentsStore, args, ret>>

UpdateCommentFail ==
    /\ pb.pc = "put"
    /\ pb' = [pb EXCEPT !.pc = "failed"]
    /\ UNCHANGED <<tracker, editStore, ed, pull, issueStore, cmd, settings, reviewStore, rv, myCommentsStore, remote, args, ret>>

\* postComment: the POST creates the comment
PostCommentOk ==
    /\ pb.pc = "post"
    /\ Len(remote[pb.key]) < MaxComments
    /\ remote' = [remote EXCEPT ![pb.key] = Append(@, pb.body)]
    /\ pb' = [pb EXCEPT !.pc = "posted", !.posts = pb.posts + 1]
    /\ UNCHANGED <<tracker, editStore, ed, pull, issueStore, cmd, settings, reviewStore, rv, myCommentsStore, args, ret>>

PostCommentFail ==
    /\ pb.pc = "post"
    /\ pb' = [pb EXCEPT !.pc = "failed"]
    /\ UNCHANGED <<tracker, editStore, ed, pull, issueStore, cmd, settings, reviewStore, rv, myCommentsStore, remote, args, ret>>

\* postComment lines 367-370: myComments.put(issue.key, comment), published = true
RecordComment ==
    /\ pb.pc = "posted"
    /\ myCommentsStore' = [myCommentsStore EXCEPT ![pb.key] = [id |-> Len(remote[pb.key])]]
    /\ pb' = [pb EXCEPT !.pc = "returned", !.published = TRUE]
    /\ UNCHANGED <<tracker, editStore, ed, pull, issueStore, cmd, settings, reviewStore, rv, remote, args, ret>>

\* someone edits a comment of the tool on the tracker
RemoteEdit ==
    /\ \E k \in Keys : \E i \in 1..Len(remote[k]) :
          /\ remote[k][i].markup # "edited"
          /\ remote' = [remote EXCEPT ![k][i] = EditedBody(@)]
    /\ pb' = [pb EXCEPT !.clean = FALSE, !.prevOk = FALSE]
    /\ UNCHANGED <<tracker, editStore, ed, pull, issueStore, cmd, settings, reviewStore, rv, myCommentsStore, args, ret>>

\* the process is killed while upsertComment awaits a request or the put
PublishKilled ==
    /\ pb.pc \in {"get", "put", "post", "posted"}
    /\ pb' = [pb EXCEPT !.pc = "killed"]
    /\ UNCHANGED <<tracker, editStore, ed, pull, issueStore, cmd, settings, reviewStore, rv, myCommentsStore, remote, args, ret>>

(***************************************************************************)
(* Command.ts: ReviewCommand.  One invocation of `karen review` probes the *)
(* inference server, then reviews one issue, or walks the issue store      *)
(* (--all) or the keys of the review store (--outdated).  The service      *)
(* calls it awaits are the calls of rv and pb above.                       *)
(***************************************************************************)
NoIssue == [key |-> "<none>"]
NoKey == "<none>"
MissingKey == "K9"

\* the order in which Deno.Kv lists the entries of a store: by key
KeyOrder == <<"K1", "K2">>

\* issueStore.get(key).catch(...)
IssueGet(key) == IF key \in DOMAIN issueStore THEN issueStore[key] ELSE NoIssue

\* the keys issueStore.list() walks, in order
IssueKeys == SelectSeq(KeyOrder, LAMBDA k : IssueGet(k) # NoIssue)

\* the keys reviewStore.keys() walks, in order
ReviewKeys == SelectSeq(KeyOrder, LAMBDA k : reviewStore[k] # NoReview)

CmdTerminal == {"idle", "done", "exited", "aborted"}

\* the commands other than review: one process at a time
MaxOps == 2

EdTerminal == {"idle", "done", "exited", "aborted"}

EdIdle ==
    [pc |-> "idle", op |-> "none", resource |-> "none", all |-> FALSE,
     key |-> NoKey, n |-> 0, issue |-> NoIssue,
     content |-> <<>>, doc |-> <<>>, reprompted |-> FALSE, saved |-> NoKey,
     local |-> NoIssue, remote |-> NoIssue, puts |-> 0]

\* a new process may start: the previous ones have ended
Quiet == cmd.pc \in CmdTerminal /\ ed.pc \in EdTerminal

\* a command of the given name starts on the given key
EdStart(op, key) == [EdIdle EXCEPT !.op = op, !.key = key, !.n = ed.n + 1]

CmdIdle ==
    [pc |-> "idle", mode |-> "none", key |-> NoKey, force |-> FALSE, publish |-> FALSE,
     probe |-> "none", queue |-> <<>>, current |-> NoIssue, started |-> <<>>,
     generated |-> 0, wrote |-> 0, comments |-> 0, cause |-> "none"]

\* the generate requests that have been issued and have not answered
InFlight ==
    IF rv.pc = "requests"
    THEN (IF rv.checklist = "inflight" THEN 1 ELSE 0)
         + (IF rv.estimate = "inflight" THEN 1 ELSE 0)
    ELSE 0

\* a walk that takes the last entry first
QueueLast(queue) == Len(queue)

\* for await (... of store.list()): the entry the loop takes next
QueueNext(queue) == 1

\* the queue without the entry at position i
QueueWithout(queue, i) == [j \in 1..(Len(queue) - 1) |-> IF j < i THEN queue[j] ELSE queue[j + 1]]

\* reviewOutdated / reviewAll: diff.outdated || options.force, the diff holding
\* no field of that name
ShouldReview(diff, force) == ("outdated" \in DOMAIN diff /\ diff.outdated) \/ force

\* karen review [issue-key] [--all] [--outdated] [--force] [--publish]: a new
\* process, its mode and its --publish flag drawn from the given sets
InvokeWith(modes, publishes) ==
    /\ cmd.pc \in CmdTerminal
    /\ ed.pc \in EdTerminal
    /\ \E mode \in modes, key \in Keys \cup {NoKey, MissingKey},
          force \in BOOLEAN, publish \in publishes :
          /\ (mode # "one" => key = NoKey)
          /\ cmd' = [CmdIdle EXCEPT !.pc = "status", !.mode = mode, !.key = key,
                                    !.force = force, !.publish = publish]
    /\ rv' = RvIdle
    /\ pb' = PbIdle
    /\ UNCHANGED <<tracker, editStore, pull, issueStore, settings, reviewStore, myCommentsStore, remote, args, ret>>

\* every mode, with and without --publish
Invoke == InvokeWith({"one", "all", "outdated"}, BOOLEAN) /\ UNCHANGED ed

\* a single review or review --outdated, without --publish
InvokeUnpublished == InvokeWith({"one", "outdated"}, {FALSE}) /\ UNCHANGED ed

\* every mode, the invocation counted with the other commands
InvokeCounted ==
    /\ ed.n < MaxOps
    /\ InvokeWith({"one", "all", "outdated"}, BOOLEAN)
    /\ ed' = [ed EXCEPT !.n = ed.n + 1]

\* a failed probe that is logged and passed over
StatusFailIgnored ==
    /\ cmd.pc = "status"
    /\ cmd' = [cmd EXCEPT !.pc = "loop", !.probe = "failed",
                          !.queue = IF cmd.mode = "all" THEN IssueKeys ELSE <<>>]
    /\ UNCHANGED <<tracker, editStore, ed, pull, issueStore, settings, reviewStore, rv, myCommentsStore, remote, pb, args, ret>>

\* service.status() rejects: console.expect -> die -> Deno.exit(1)
StatusFail ==
    /\ cmd.pc = "status"
    /\ cmd' = [cmd EXCEPT !.pc = "exited", !.probe = "failed", !.cause = "status"]
    /\ UNCHANGED <<tracker, editStore, ed, pull, issueStore, settings, reviewStore, rv, myCommentsStore, remote, pb, args, ret>>

\* service.status() resolves; lines 422-431 choose what to walk
StatusOk ==
    /\ cmd.pc = "status"
    /\ cmd' = IF cmd.mode = "outdated"
              THEN [cmd EXCEPT !.pc = "loop", !.probe = "ok", !.queue = ReviewKeys]
              ELSE IF cmd.mode = "all"
              THEN [cmd EXCEPT !.pc = "loop", !.probe = "ok", !.queue = IssueKeys]
              ELSE IF cmd.key = NoKey
              THEN [cmd EXCEPT !.pc = "exited", !.probe = "ok", !.cause = "usage"]
              ELSE [cmd EXCEPT !.pc = "loop", !.probe = "ok", !.queue = <<cmd.key>>]
    /\ UNCHANGED <<tracker, editStore, ed, pull, issueStore, settings, reviewStore, rv, myCommentsStore, remote, pb, args, ret>>

\* the walk is over: console.info("done"), or the single review has been printed
LoopDone ==
    /\ cmd.pc = "loop"
    /\ cmd.queue = <<>>
    /\ cmd' = [cmd EXCEPT !.pc = "done", !.current = NoIssue]
    /\ UNCHANGED <<tracker, editStore, ed, pull, issueStore, settings, reviewStore, rv, myCommentsStore, remote, pb, args, ret>>

\* one turn of the loop of reviewOutdated / reviewAll, or the single review of
\* lines 428-431: the issue is read, the diff is taken and tested, and
\* reviewOne calls service.review
LoopStep ==
    /\ cmd.pc = "loop"
    /\ cmd.queue # <<>>
    /\ LET i == QueueNext(cmd.queue)
           issue == IssueGet(cmd.queue[i])
           rest == QueueWithout(cmd.queue, i)
           diff == ReviewDiffOf(StoreGet(reviewStore, issue.key), issue)
           force == IF cmd.mode = "all" THEN TRUE ELSE cmd.force
       IN  IF issue = NoIssue
           THEN /\ cmd' = [cmd EXCEPT !.pc = "exited", !.cause = "notfound"]
                /\ rv' = rv
           ELSE IF cmd.mode = "one" \/ ShouldReview(diff, cmd.force)
           THEN /\ cmd' = [cmd EXCEPT !.pc = "reviewing", !.queue = rest, !.current = issue,
                                      !.started = Append(cmd.started, issue.key)]
                /\ rv' = ReviewStart(issue, force, NoModel)
           ELSE /\ cmd' = [cmd EXCEPT !.queue = rest, !.current = NoIssue]
                /\ rv' = rv
    /\ UNCHANGED <<tracker, editStore, ed, pull, issueStore, settings, reviewStore, myCommentsStore, remote, pb, args, ret>>

\* reviewOne after service.review: publish(review) is called, or the review printed
AfterReview ==
    /\ cmd.pc = "reviewing"
    /\ rv.pc = "returned"
    /\ LET counted == [cmd EXCEPT !.generated = cmd.generated + rv.requests,
                                  !.wrote = cmd.wrote + (IF rv.path = "fresh" THEN 1 ELSE 0)]
       IN  IF cmd.publish
           THEN /\ cmd' = [counted EXCEPT !.pc = "publishing"]
                /\ pb' = UpsertStart(rv.result)
           ELSE /\ cmd' = [counted EXCEPT !.pc = "loop"]
                /\ pb' = pb
    /\ UNCHANGED <<tracker, editStore, ed, pull, issueStore, settings, reviewStore, rv, myCommentsStore, remote, args, ret>>

\* service.review rejects: nothing catches it, the action rejects and the process ends
ReviewThrew ==
    /\ cmd.pc = "reviewing"
    /\ rv.pc = "failed"
    /\ cmd' = [cmd EXCEPT !.pc = "aborted", !.cause = "inference",
                          !.generated = cmd.generated + rv.requests]
    /\ UNCHANGED <<tracker, editStore, ed, pull, issueStore, settings, reviewStore, rv, myCommentsStore, remote, pb, args, ret>>

\* reviewOne after service.publish: the link is logged
AfterPublish ==
    /\ cmd.pc = "publishing"
    /\ pb.pc = "returned"
    /\ cmd' = [cmd EXCEPT !.pc = "loop", !.comments = cmd.comments + pb.posts + pb.puts]
    /\ UNCHANGED <<tracker, editStore, ed, pull, issueStore, settings, reviewStore, rv, myCommentsStore, remote, pb, args, ret>>

\* service.publish rejects (the tracker refused a request): nothing catches it
PublishThrew ==
    /\ cmd.pc = "publishing"
    /\ pb.pc = "failed"
    /\ cmd' = [cmd EXCEPT !.pc = "aborted", !.cause = "tracker",
                          !.comments = cmd.comments + pb.posts + pb.puts]
    /\ UNCHANGED <<tracker, editStore, ed, pull, issueStore, settings, reviewStore, rv, myCommentsStore, remote, pb, args, ret>>

(***************************************************************************)
(* Command.ts and Issue.ts: pull issue.  The tracker holds the issues as   *)
(* they are upstream; anyone may change them there.                        *)
(***************************************************************************)
\* someone changes an issue on the tracker
TrackerEdit ==
    /\ \E issue \in Issues :
          /\ tracker[issue.key] # issue
          /\ tracker' = [tracker EXCEPT ![issue.key] = issue]
    /\ UNCHANGED <<editStore, ed, pull, issueStore, cmd, settings, reviewStore, rv,
                   myCommentsStore, remote, pb, args, ret>>

\* Store.put(key, value)
StorePut(store, key, value) == [store EXCEPT ![key] = value]

\* karen pull issue <key>: pullIssue fetches the issue and puts it under its key
PullIssueOk ==
    /\ Quiet
    /\ ed.n < MaxOps
    /\ \E key \in Keys :
          /\ issueStore' = StorePut(issueStore, tracker[key].key, tracker[key])
          /\ ed' = [EdStart("pull", key) EXCEPT !.pc = "done"]
    /\ UNCHANGED <<tracker, editStore, pull, cmd, settings, reviewStore, rv,
                   myCommentsStore, remote, pb, args, ret>>

\* pullIssue: if (!response.ok) throw response; console.expect("Issue not found")
PullIssueFail ==
    /\ Quiet
    /\ ed.n < MaxOps
    /\ \E key \in Keys \cup {MissingKey} :
          ed' = [EdStart("pull", key) EXCEPT !.pc = "exited"]
    /\ UNCHANGED <<tracker, editStore, pull, issueStore, cmd, settings, reviewStore, rv,
                   myCommentsStore, remote, pb, args, ret>>

(***************************************************************************)
(* Command.ts: EditCommand and PushCommand.                                *)
(***************************************************************************)
\* editStore.get(key).catch(() => null)
EditGet(key) == IF key \in DOMAIN editStore THEN editStore[key] ELSE NoIssue

\* wip || await issueStore.get(key)
EditSource(key) == IF EditGet(key) # NoIssue THEN EditGet(key) ELSE IssueGet(key)

\* karen edit <key>: the issue is read and serialized and the editor has run
EditOpen ==
    /\ Quiet
    /\ ed.n < MaxOps
    /\ \E key \in Keys \cup {MissingKey} :
          LET issue == EditSource(key)
          IN  ed' = IF issue = NoIssue
                    THEN [EdStart("edit", key) EXCEPT !.pc = "exited"]
                    ELSE [EdStart("edit", key) EXCEPT !.pc = "prompt", !.issue = issue,
                                                      !.content = serializeIssue(issue)]
    /\ UNCHANGED <<tracker, editStore, pull, issueStore, cmd, settings, reviewStore, rv,
                   myCommentsStore, remote, pb, args, ret>>

\* the editor did not start: console.die("Editor failed to start")
EditorFail ==
    /\ Quiet
    /\ ed.n < MaxOps
    /\ \E key \in Keys :
          /\ EditSource(key) # NoIssue
          /\ ed' = [EdStart("edit", key) EXCEPT !.pc = "exited", !.issue = EditSource(key)]
    /\ UNCHANGED <<tracker, editStore, pull, issueStore, cmd, settings, reviewStore, rv,
                   myCommentsStore, remote, pb, args, ret>>

\* a comparison of the checksums that never finds them equal
SameContentNever(content1, content) == FALSE

\* checksum1 === checksum
SameContent(content1, content) == hash(content1) = hash(content)

\* const issue1 = {...issue, fields: {...issue.fields, summary: meta.summary, description}}
EditedIssue(issue, edit) ==
    [issue EXCEPT !.summary = edit.meta.summary, !.description = edit.description]

\* one turn of the loop of edit(): Enter is pressed, the file is read; unchanged,
\* the command returns; deserialized, the edit is put under meta.key; if not,
\* the error is shown and the loop prompts again
EditSave ==
    /\ ed.pc = "prompt"
    /\ \E content1 \in EditedDocuments(ed.issue) :
          LET edit == deserializeEdit(content1)
          IN  IF SameContent(content1, ed.content)
              THEN /\ ed' = [ed EXCEPT !.pc = "done", !.doc = content1]
                   /\ editStore' = editStore
              ELSE IF edit.ok
              THEN /\ ed' = [ed EXCEPT !.pc = "done", !.doc = content1,
                                       !.saved = edit.meta.key]
                   /\ editStore' = StorePut(editStore, edit.meta.key,
                                            EditedIssue(ed.issue, edit))
              ELSE /\ ed' = [ed EXCEPT !.doc = content1, !.reprompted = TRUE]
                   /\ editStore' = editStore
    /\ UNCHANGED <<tracker, pull, issueStore, cmd, settings, reviewStore, rv,
                   myCommentsStore, remote, pb, args, ret>>

\* karen push <key>: pullIssue stores the remote issue; without an edit, or with
\* one that serializes as the remote, "Up to date"; else pushIssue sends the PUT
PushPull ==
    /\ Quiet
    /\ ed.n < MaxOps
    /\ \E key \in Keys :
          LET issue == tracker[key]
              local == EditGet(key)
              started == [EdStart("push", key) EXCEPT !.remote = issue, !.local = local]
          IN  /\ issueStore' = StorePut(issueStore, issue.key, issue)
              /\ ed' = IF local = NoIssue
                       THEN [started EXCEPT !.pc = "done"]
                       ELSE IF hash(serializeIssue(local)) = hash(serializeIssue(issue))
                       THEN [started EXCEPT !.pc = "done"]
                       ELSE [started EXCEPT !.pc = "pushing"]
    /\ UNCHANGED <<tracker, editStore, pull, cmd, settings, reviewStore, rv,
                   myCommentsStore, remote, pb, args, ret>>

\* pullIssue: if (!response.ok) throw response; push() catches nothing
PushPullFail ==
    /\ Quiet
    /\ ed.n < MaxOps
    /\ \E key \in Keys \cup {MissingKey} :
          ed' = [EdStart("push", key) EXCEPT !.pc = "aborted", !.local = EditGet(key)]
    /\ UNCHANGED <<tracker, editStore, pull, issueStore, cmd, settings, reviewStore, rv,
                   myCommentsStore, remote, pb, args, ret>>

\* the tracker accepts the PUT of summary and description on the edit's key;
\* issues.put(local.key, local); edits.remove(key)
PushIssueOk ==
    /\ ed.pc = "pushing"
    /\ ed.local.key \in DOMAIN tracker
    /\ tracker' = [tracker EXCEPT ![ed.local.key] =
                      [@ EXCEPT !.summary = ed.local.summary,
                                !.description = ed.local.description]]
    /\ issueStore' = StorePut(issueStore, ed.local.key, ed.local)
    /\ editStore' = StorePut(editStore, ed.key, NoIssue)
    /\ ed' = [ed EXCEPT !.pc = "done", !.puts = ed.puts + 1]
    /\ UNCHANGED <<pull, cmd, settings, reviewStore, rv, myCommentsStore, remote, pb, args, ret>>

\* pushIssue: if (!response.ok) throw response
PushIssueFail ==
    /\ ed.pc = "pushing"
    /\ ed' = [ed EXCEPT !.pc = "aborted"]
    /\ UNCHANGED <<tracker, editStore, pull, issueStore, cmd, settings, reviewStore, rv,
                   myCommentsStore, remote, pb, args, ret>>

(***************************************************************************)
(* Command.ts: RemoveCommand, DiffCommand and ListCommand.                 *)
(***************************************************************************)
Resources == {"issue", "edit", "review"}

\* Store.remove(key), or Store.removeAll(), on a store with the given empty value
StoreRemove(store, key, all, none) ==
    [k \in DOMAIN store |-> IF all \/ k = key THEN none ELSE store[k]]

\* the store of the resource after the removal, the other stores as they were
AfterRemove(store, name, none, resource, key, all) ==
    IF resource = name THEN StoreRemove(store, key, all, none) ELSE store

\* a removal of an issue that takes the issue's Review with it
RemoveCascading ==
    /\ Quiet
    /\ ed.n < MaxOps
    /\ \E resource \in Resources, key \in Keys, all \in BOOLEAN :
          /\ ed' = [EdStart("remove", IF all THEN NoKey ELSE key)
                      EXCEPT !.pc = "done", !.resource = resource, !.all = all]
          /\ issueStore' = AfterRemove(issueStore, "issue", NoIssue, resource, key, all)
          /\ editStore' = AfterRemove(editStore, "edit", NoIssue, resource, key, all)
          /\ reviewStore' = IF resource = "issue"
                            THEN StoreRemove(reviewStore, key, all, NoReview)
                            ELSE AfterRemove(reviewStore, "review", NoReview, resource, key, all)
    /\ UNCHANGED <<tracker, pull, cmd, settings, rv, myCommentsStore, remote, pb, args, ret>>

\* karen remove <resource> <key>, and karen remove <resource> --all once
\* confirmed or forced: removeResource of the resource's store
Remove ==
    /\ Quiet
    /\ ed.n < MaxOps
    /\ \E resource \in Resources, key \in Keys, all \in BOOLEAN :
          /\ ed' = [EdStart("remove", IF all THEN NoKey ELSE key)
                      EXCEPT !.pc = "done", !.resource = resource, !.all = all]
          /\ issueStore' = AfterRemove(issueStore, "issue", NoIssue, resource, key, all)
          /\ editStore' = AfterRemove(editStore, "edit", NoIssue, resource, key, all)
          /\ reviewStore' = AfterRemove(reviewStore, "review", NoReview, resource, key, all)
    /\ UNCHANGED <<tracker, pull, cmd, settings, rv, myCommentsStore, remote, pb, args, ret>>

\* karen remove <resource> without key and without --all (die), or --all not
\* confirmed ("aborted")
RemoveDeclined ==
    /\ Quiet
    /\ ed.n < MaxOps
    /\ \E resource \in Resources, all \in BOOLEAN :
          ed' = [EdStart("remove", NoKey)
                   EXCEPT !.pc = IF all THEN "aborted" ELSE "exited",
                          !.resource = resource, !.all = all]
    /\ UNCHANGED <<tracker, editStore, pull, issueStore, cmd, settings, reviewStore, rv,
                   myCommentsStore, remote, pb, args, ret>>

\* karen diff <key>: the patch between the stored issue and its edit is printed
DiffCommand ==
    /\ Quiet
    /\ ed.n < MaxOps
    /\ \E key \in Keys \cup {MissingKey} :
          ed' = IF IssueGet(key) = NoIssue
                THEN [EdStart("diff", key) EXCEPT !.pc = "exited"]
                ELSE [EdStart("diff", key) EXCEPT !.pc = "done", !.issue = IssueGet(key),
                                                  !.local = EditGet(key)]
    /\ UNCHANGED <<tracker, editStore, pull, issueStore, cmd, settings, reviewStore, rv,
                   myCommentsStore, remote, pb, args, ret>>

\* karen list issues | edits | comments | reviews: the store is read and printed
List ==
    /\ Quiet
    /\ ed.n < MaxOps
    /\ \E resource \in Resources \cup {"comment"} :
          ed' = [EdStart("list", NoKey) EXCEPT !.pc = "done", !.resource = resource]
    /\ UNCHANGED <<tracker, editStore, pull, issueStore, cmd, settings, reviewStore, rv,
                   myCommentsStore, remote, pb, args, ret>>

\* karen list reviews --outdated: keepOutdated pulls the issue of every stored
\* Review, which puts it into the issue store, the pulls that fail passed over
ListOutdated ==
    /\ Quiet
    /\ ed.n < MaxOps
    /\ \E pulled \in SUBSET {k \in Keys : reviewStore[k] # NoReview} :
          issueStore' = [k \in DOMAIN issueStore |->
                            IF k \in pulled THEN tracker[k] ELSE issueStore[k]]
    /\ ed' = [EdStart("list", NoKey) EXCEPT !.pc = "done", !.resource = "review",
                                            !.all = TRUE]
    /\ UNCHANGED <<tracker, editStore, pull, cmd, settings, reviewStore, rv,
                   myCommentsStore, remote, pb, args, ret>>

(***************************************************************************)
(* Issue.ts: paginateIssues and pullIssues.  The backlog of the board is   *)
(* the issues 1..backlog in the order the tracker lists them; fetched and  *)
(* stored count how many of them, from the first on, have been yielded and *)
(* put into the issue store.                                               *)
(***************************************************************************)
MaxBacklog == 501

\* paginateIssues(board, perPage = 50, maxRequests = 10)
PerPage == 50
MaxRequests == 10

PullIdle ==
    [pc |-> "idle", backlog |-> 0, startAt |-> 0, requests |-> 0, fetched |-> 0,
     stored |-> 0]

\* data.issues.length for the page asked at startAt
PageLength(backlog, startAt) ==
    IF backlog - startAt >= PerPage THEN PerPage
    ELSE IF backlog > startAt THEN backlog - startAt
    ELSE 0

\* pullIssues(board) is called: startAt = 0, requests = 0, and the first page
\* is asked for
PullIssuesStart ==
    /\ pull.pc \in {"idle", "done", "failed"}
    /\ \E backlog \in 0..MaxBacklog :
          pull' = [PullIdle EXCEPT !.pc = "paging", !.backlog = backlog]
    /\ UNCHANGED <<tracker, editStore, ed, issueStore, cmd, settings, reviewStore, rv,
                   myCommentsStore, remote, pb, args, ret>>

\* a page answers: its issues are yielded; a short page, or ++requests beyond
\* maxRequests, ends the generator, and pullIssues puts what was yielded
PageOk ==
    /\ pull.pc = "paging"
    /\ LET requests == pull.requests + 1
           length == PageLength(pull.backlog, pull.startAt)
           fetched == pull.fetched + length
       IN  pull' = IF length < PerPage \/ requests + 1 > MaxRequests
                   THEN [pull EXCEPT !.pc = "done", !.requests = requests,
                                     !.fetched = fetched, !.stored = fetched]
                   ELSE [pull EXCEPT !.requests = requests, !.fetched = fetched,
                                     !.startAt = pull.startAt + PerPage]
    /\ UNCHANGED <<tracker, editStore, ed, issueStore, cmd, settings, reviewStore, rv,
                   myCommentsStore, remote, pb, args, ret>>

\* a page fails: if (!response.ok) throw response; nothing is put
PageFail ==
    /\ pull.pc = "paging"
    /\ pull' = [pull EXCEPT !.pc = "failed", !.requests = pull.requests + 1]
    /\ UNCHANGED <<tracker, editStore, ed, issueStore, cmd, settings, reviewStore, rv,
                   myCommentsStore, remote, pb, args, ret>>

(***************************************************************************)
(* Idle values of the variables a specification does not use.              *)
(***************************************************************************)
NoArgs == <<>>
NoRet == [state |-> "idle"]

(***************************************************************************)
(* SpecScore: calculateScore on every accepted checklist and every answer  *)
(* of the model.                                                           *)
(***************************************************************************)
ChecklistResponse ==
    /\ ret.state = "idle"
    /\ \E data \in Answers(Len(settings.checklist)) :
          args' = ChecklistResults(settings, data)
    /\ ret' = [state |-> "answered"]
    /\ UNCHANGED <<tracker, editStore, ed, pull, issueStore, cmd, settings, reviewStore, rv, myCommentsStore, remote, pb>>

Score ==
    /\ ret.state = "answered"
    /\ ret' = [state |-> "scored", score |-> calculateScore(args)]
    /\ UNCHANGED <<tracker, editStore, ed, pull, issueStore, cmd, settings, reviewStore, rv, myCommentsStore, remote, pb, args>>

(***************************************************************************)
(* SpecEstimate: normalizeEstimate on every non-empty scale, every score   *)
(* in [0, 1] and every raw estimate.                                       *)
(***************************************************************************)
Scores == {[num |-> n, den |-> d] : n \in 0..MaxDen, d \in 1..MaxDen} 

RawEstimates == [confidence : {50, 80}, storyPoints : 0..MaxPoints]

EstimateResponse ==
    /\ ret.state = "idle"
    /\ \E estimate \in RawEstimates : args' = [args EXCEPT !.estimate = estimate]
    /\ ret' = [state |-> "answered"]
    /\ UNCHANGED <<tracker, editStore, ed, pull, issueStore, cmd, settings, reviewStore, rv, myCommentsStore, remote, pb>>

Normalize ==
    /\ ret.state = "answered"
    /\ ret' = [state |-> "normalized",
               estimate |-> normalizeEstimate(args.score, args.estimate, settings)]
    /\ UNCHANGED <<tracker, editStore, ed, pull, issueStore, cmd, settings, reviewStore, rv, myCommentsStore, remote, pb, args>>

(***************************************************************************)
(* SpecCodec: deserializeEdit on serialized issues and on edited           *)
(* documents.                                                              *)
(***************************************************************************)
RoundTrip ==
    /\ ret.state = "idle"
    /\ ret' = [state |-> "roundtrip", text |-> serializeIssue(args),
               edit |-> deserializeEdit(serializeIssue(args))]
    /\ UNCHANGED <<tracker, editStore, ed, pull, issueStore, cmd, settings, reviewStore, rv,
                   myCommentsStore, remote, pb, args>>

DeserializeEdited ==
    /\ ret.state = "idle"
    /\ \E text \in EditedDocuments(args) :
          ret' = [state |-> "edited", text |-> text, edit |-> deserializeEdit(text)]
    /\ UNCHANGED <<tracker, editStore, ed, pull, issueStore, cmd, settings, reviewStore, rv,
                   myCommentsStore, remote, pb, args>>

(***************************************************************************)
(* Specifications.                                                         *)
(***************************************************************************)
EmptyStore == [k \in Keys |-> NoReview]

InitOthers ==
    /\ issueStore = [k \in Keys |-> PublishedIssue(k)]
    /\ cmd = CmdIdle
    /\ tracker = [k \in Keys |-> PublishedIssue(k)]
    /\ editStore = [k \in Keys |-> NoIssue]
    /\ ed = EdIdle
    /\ pull = PullIdle
    /\ reviewStore = EmptyStore
    /\ rv = RvIdle
    /\ myCommentsStore = [k \in Keys |-> NoComment]
    /\ remote = [k \in Keys |-> <<>>]
    /\ pb = PbIdle

\* the review engine under the loaded settings
Init ==
    /\ settings = ScenarioSettings
    /\ InitOthers
    /\ args = NoArgs
    /\ ret = NoRet

Next ==
    \/ ReviewCached
    \/ ReviewRecompute
    \/ ChecklistOk
    \/ ChecklistFail
    \/ EstimateOk
    \/ EstimateFail
    \/ Persist
    \/ Interrupt
    \/ Diff

Spec == Init /\ [][Next]_vars

\* the publication of reports
NextPublish ==
    \/ Upsert
    \/ GetCommentOk
    \/ GetCommentFail
    \/ UpdateCommentOk
    \/ UpdateCommentFail
    \/ PostCommentOk
    \/ PostCommentFail
    \/ RecordComment
    \/ RemoteEdit

SpecPublish == Init /\ [][NextPublish]_vars

\* the publication of reports by processes that can be killed
NextPublishKilled ==
    \/ Upsert
    \/ GetCommentOk
    \/ GetCommentFail
    \/ UpdateCommentOk
    \/ UpdateCommentFail
    \/ PostCommentOk
    \/ PostCommentFail
    \/ RecordComment
    \/ RemoteEdit
    \/ PublishKilled

SpecPublishKilled == Init /\ [][NextPublishKilled]_vars

\* calculateScore under every settings file validateSettings accepts
InitScore ==
    /\ settings \in {s \in {MakeSettings(c, scale) : c \in CandidateChecklists,
                                                       scale \in {DefaultScale, <<>>}} :
                        validateSettings(s)}
    /\ InitOthers
    /\ args = NoArgs
    /\ ret = NoRet

NextScore ==
    \/ ChecklistResponse
    \/ Score

SpecScore == InitScore /\ [][NextScore]_vars

\* normalizeEstimate under every scale
InitEstimate ==
    /\ settings \in {MakeSettings(ScenarioChecklist, scale) : scale \in CandidateScales}
    /\ InitOthers
    /\ \E score \in {s \in Scores : s.num <= s.den} :
          args = [score |-> score, estimate |-> NoEstimate]
    /\ ret = NoRet

NextEstimate ==
    \/ EstimateResponse
    \/ Normalize

SpecEstimate == InitEstimate /\ [][NextEstimate]_vars

\* pull issue, edit and push, one command after the other, while the issues
\* change upstream
NextEdit ==
    \/ TrackerEdit
    \/ PullIssueOk
    \/ PullIssueFail
    \/ EditOpen
    \/ EditorFail
    \/ EditSave
    \/ PushPull
    \/ PushPullFail
    \/ PushIssueOk
    \/ PushIssueFail

SpecEdit == Init /\ [][NextEdit]_vars

\* pullIssues on backlogs of every size up to MaxBacklog
NextPull ==
    \/ PullIssuesStart
    \/ PageOk
    \/ PageFail

SpecPull == Init /\ [][NextPull]_vars

\* serializeIssue and deserializeEdit on issues whose summary or description
\* may hold the delimiter, and on edited documents
CodecIssues ==
    [key : Keys, summary : {"s1", "s2", "a---b"},
     description : Descriptions \cup {"x---y"}]

InitCodec ==
    /\ settings = ScenarioSettings
    /\ InitOthers
    /\ args \in CodecIssues
    /\ ret = NoRet

NextCodec ==
    \/ RoundTrip
    \/ DeserializeEdited

SpecCodec == InitCodec /\ [][NextCodec]_vars

\* the checklist of the review command's specification: one entry
CommandSettings == MakeSettings(EntriesOf(<<1>>, NumberTypes(1)), DefaultScale)

\* invocations of `karen review`, one after the other, over two stored issues
InitCommand ==
    /\ settings = CommandSettings
    /\ InitOthers
    /\ args = NoArgs
    /\ ret = NoRet

NextCommand ==
    \/ Invoke
    \/ StatusOk
    \/ StatusFail
    \/ LoopStep
    \/ LoopDone
    \/ AfterReview
    \/ ReviewThrew
    \/ AfterPublish
    \/ PublishThrew
    \/ ChecklistOk
    \/ ChecklistFail
    \/ EstimateOk
    \/ EstimateFail
    \/ Persist
    \/ GetCommentOk
    \/ GetCommentFail
    \/ UpdateCommentOk
    \/ UpdateCommentFail
    \/ PostCommentOk
    \/ PostCommentFail
    \/ RecordComment

SpecCommand == InitCommand /\ [][NextCommand]_vars

\* every command of the tool, one process after the other
NextTool ==
    \/ TrackerEdit
    \/ PullIssueOk
    \/ PullIssueFail
    \/ EditOpen
    \/ EditorFail
    \/ EditSave
    \/ PushPull
    \/ PushPullFail
    \/ PushIssueOk
    \/ PushIssueFail
    \/ Remove
    \/ RemoveDeclined
    \/ DiffCommand
    \/ List
    \/ ListOutdated
    \/ InvokeCounted
    \/ StatusOk
    \/ StatusFail
    \/ LoopStep
    \/ LoopDone
    \/ AfterReview
    \/ ReviewThrew
    \/ AfterPublish
    \/ PublishThrew
    \/ ChecklistOk
    \/ ChecklistFail
    \/ EstimateOk
    \/ EstimateFail
    \/ Persist
    \/ GetCommentOk
    \/ GetCommentFail
    \/ UpdateCommentOk
    \/ UpdateCommentFail
    \/ PostCommentOk
    \/ PostCommentFail
    \/ RecordComment

SpecTool == InitCommand /\ [][NextTool]_vars

\* `karen pull issue` and `karen review` without --publish while the issues
\* change upstream
NextOutdated ==
    \/ TrackerEdit
    \/ PullIssueOk
    \/ PullIssueFail
    \/ InvokeUnpublished
    \/ StatusOk
    \/ StatusFail
    \/ LoopStep
    \/ LoopDone
    \/ AfterReview
    \/ ReviewThrew
    \/ ChecklistOk
    \/ ChecklistFail
    \/ EstimateOk
    \/ EstimateFail
    \/ Persist

SpecOutdated == InitCommand /\ [][NextOutdated]_vars

(***************************************************************************)
(* Properties.                                                             *)
(***************************************************************************)

\* C1: a review() call with force false on a key that holds a Review returns
\* that stored Review, issues no generate request and leaves the store as it
\* was, whatever the issue's content and the model option.
CachedReviewReturned ==
    [][(/\ rv.pc \in RvTerminal
        /\ rv'.op = "review"
        /\ ~rv'.force
        /\ reviewStore[rv'.issue.key] # NoReview)
       => (/\ rv'.pc = "returned"
           /\ rv'.result = reviewStore[rv'.issue.key]
           /\ rv'.requests = 0
           /\ reviewStore' = reviewStore)]_vars

\* C1 witness: a cached return for an issue whose content is no longer the
\* reviewed one, asked with a model other than the review's
CachedReviewWitness ==
    /\ rv.pc = "returned" /\ rv.op = "review" /\ rv.path = "cached"
    /\ rv.result.issue # rv.issue
    /\ rv.modelOpt = "m2" /\ rv.result.model # "m2"

\* the previous upsertComment call returned, for the same issue and the same
\* body, and the tracker kept the comment as written
SamePublishedTwice ==
    /\ pb.pc = "returned"
    /\ pb.prevOk
    /\ pb.prevKey = pb.key
    /\ pb.prevBody = pb.body

\* C2: of two successive publish calls with the same report, the second makes no
\* POST and no PUT and returns published = false; the two make one remote write
\* in all when the first one published.
SecondPublishSkips ==
    SamePublishedTwice
    => (/\ pb.posts = 0 /\ pb.puts = 0
        /\ ~pb.published
        /\ pb.prevWrites <= 1
        /\ (pb.prevPublished => pb.prevWrites + pb.posts + pb.puts = 1))

\* C2 witness: a second publish of a report the first call wrote
SecondPublishWitness ==
    SamePublishedTwice /\ pb.prevPublished /\ pb.prevWrites = 1

\* C3: the tool creates at most one comment per issue key; the recorded id is
\* that comment's, and a later publication that writes is one PUT on that id.
AtMostOneCommentPerIssue ==
    /\ \A k \in Keys :
          /\ Len(remote[k]) <= 1
          /\ (HasCached(myCommentsStore[k]) => myCommentsStore[k].id = 1 /\ Len(remote[k]) = 1)
    /\ (pb.pc = "put" => pb.cached = myCommentsStore[pb.key] /\ HasCached(pb.cached))
    /\ (pb.pc = "returned" /\ pb.published => pb.posts + pb.puts = 1)

\* C3 witness: a later publication updated the one comment in place
UpdatedInPlaceWitness ==
    /\ pb.pc = "returned" /\ pb.puts = 1 /\ pb.posts = 0
    /\ Len(remote[pb.key]) = 1
    /\ remote[pb.key][1] = pb.body

\* the diff() call that returned found a stored review
DiffReturnedWithReview ==
    /\ rv.pc = "returned" /\ rv.op = "diff"
    /\ reviewStore[rv.issue.key] # NoReview

\* C4: diff() of an issue that serializes as the stored review's snapshot has
\* hasReview = true and isOutdated = false.
UnchangedIssueNotOutdated ==
    (/\ DiffReturnedWithReview
     /\ serializeIssue(reviewStore[rv.issue.key].issue) = serializeIssue(rv.issue))
    => (rv.diff.hasReview /\ ~rv.diff.isOutdated)

\* a patch line that adds or removes a line of the text
IsChange(line) == Len(line) >= 2 /\ line[2] \in {"+", "-"}

\* C5: diff() of an issue whose serialized form differs from the stored
\* snapshot's has isOutdated = true and a patch with changed lines.
ChangedIssueOutdated ==
    (/\ DiffReturnedWithReview
     /\ serializeIssue(reviewStore[rv.issue.key].issue) # serializeIssue(rv.issue))
    => (/\ rv.diff.hasReview
        /\ rv.diff.isOutdated
        /\ \E i \in 1..Len(rv.diff.patch) : IsChange(rv.diff.patch[i]))

\* C5 witness: a diff of a changed issue
ChangedIssueWitness ==
    /\ DiffReturnedWithReview
    /\ serializeIssue(reviewStore[rv.issue.key].issue) # serializeIssue(rv.issue)

\* C6: a recomputing review() issues both requests before either answers; the
\* store changes only in the one write made after both have answered, which
\* puts the whole Review under the issue's key; a failed request or an
\* interruption leaves the store as it was.
WriteOnlyAfterBothAnswered ==
    [][/\ ((rv.pc \in RvTerminal /\ rv'.pc = "requests")
            => (rv'.checklist = "inflight" /\ rv'.estimate = "inflight"))
       /\ (reviewStore' # reviewStore
            => (/\ rv.pc = "requests"
                /\ rv.checklist = "done" /\ rv.estimate = "done"
                /\ rv'.pc = "returned"
                /\ \A k \in Keys \ {rv.issue.key} : reviewStore'[k] = reviewStore[k]
                /\ reviewStore'[rv.issue.key] = rv'.result
                /\ rv'.result.issue = rv.issue
                /\ rv'.result.estimate = rv.estimateData
                /\ \A i \in DOMAIN rv.checklistData :
                      rv'.result.checklist[i].value = rv.checklistData[i]))
       /\ (rv'.pc \in {"failed", "interrupted"} => reviewStore' = reviewStore)]_vars

\* C6 witness: a forced re-review failed and the previous Review is still stored
FailedRereviewWitness ==
    /\ rv.pc \in {"failed", "interrupted"} /\ rv.path = "fresh"
    /\ reviewStore[rv.issue.key] # NoReview

RECURSIVE SumOver(_, _)
SumOver(f, S) ==
    IF S = {} THEN 0
    ELSE LET i == CHOOSE x \in S : TRUE IN f[i] + SumOver(f, S \ {i})

\* the sum of the weights of the entries of the scored checklist, all or true
WeightOf(onlyTrue) ==
    SumOver([i \in 1..Len(args) |-> args[i].entry.weight],
            {i \in 1..Len(args) : ~onlyTrue \/ args[i].value})

\* C7: for an accepted checklist of total weight > 0, calculateScore is the
\* weight of the true entries over the total weight, and lies in [0, 1].
ScoreInUnitInterval ==
    (ret.state = "scored" /\ WeightOf(FALSE) > 0)
    => (/\ ret.score.num = WeightOf(TRUE)
        /\ ret.score.den = WeightOf(FALSE)
        /\ 0 <= ret.score.num
        /\ ret.score.num <= ret.score.den)

\* C8: for an accepted checklist of total weight > 0, the score is 1 iff every
\* entry is true and 0 iff every entry is false.
ScoreExtremesIffUniform ==
    (ret.state = "scored" /\ ret.score.den > 0)
    => (/\ (ret.score.num = ret.score.den <=> \A i \in 1..Len(args) : args[i].value)
        /\ (ret.score.num = 0 <=> \A i \in 1..Len(args) : ~args[i].value))

\* |x - (storyPoints * score + storyPoints) / 2|, scaled by 2 * score.den
FromAverage(x) ==
    Abs(2 * args.score.den * x - args.estimate.storyPoints * (args.score.num + args.score.den))

\* the positions of the scale at minimal distance from the average
Nearest ==
    {i \in 1..Len(settings.scale) :
        \A j \in 1..Len(settings.scale) :
            FromAverage(settings.scale[i]) <= FromAverage(settings.scale[j])}

\* C9: the normalized story points are a value of the scale at minimal
\* distance from (storyPoints * score + storyPoints) / 2.
StoryPointsNearestOnScale ==
    ret.state = "normalized"
    => \E i \in Nearest : ret.estimate.storyPoints = settings.scale[i]

\* C9 witness: the nearest value is neither the first nor the last of the scale
NearestInsideWitness ==
    /\ ret.state = "normalized"
    /\ settings.scale = DefaultScale
    /\ ret.estimate.storyPoints \notin {1, 8}

\* two different values of the scale are at the same minimal distance
Tie == \E i, j \in Nearest : settings.scale[i] # settings.scale[j]

Min(S) == CHOOSE x \in S : \A y \in S : x <= y
Max(S) == CHOOSE x \in S : \A y \in S : x >= y

\* the scale is declared in ascending order
Ascending ==
    \A i, j \in 1..Len(settings.scale) : i < j => settings.scale[i] < settings.scale[j]

\* C10: on a tie in an ascending scale the value that comes first in
\* the scale is returned.
TieTakesFirst ==
    (ret.state = "normalized" /\ Tie /\ Ascending)
    => ret.estimate.storyPoints = settings.scale[Min(Nearest)]

\* what roundScale does on a tie: the value that comes last in the scale is
\* returned, the reducer keeping the running value only when strictly closer.
TieTakesLast ==
    (ret.state = "normalized" /\ Tie)
    => ret.estimate.storyPoints = settings.scale[Max(Nearest)]

\* the tie of the example: story points 8 at score 0 on [1, 2, 3, 5, 8]: the average 4 is
\* as far from 3 as from 5
TieWitness ==
    /\ ret.state = "normalized" /\ Tie
    /\ settings.scale = DefaultScale
    /\ args.estimate.storyPoints = 8 /\ args.score.num = 0
    /\ ret.estimate.storyPoints = 5

\* r is num / den rounded to the nearest integer, halves upwards (den > 0)
IsRounded(r, num, den) ==
    /\ 2 * r * den - den <= 2 * num
    /\ 2 * num < 2 * r * den + den

\* C11: the normalized confidence of a Review, and the confidence its report
\* shows, is (rawConfidence * score + rawConfidence) / 2 rounded to the nearest
\* integer.
ConfidenceIsRoundedAverage ==
    ret.state = "normalized"
    => LET num == args.estimate.confidence * (args.score.num + args.score.den)
           den == 2 * args.score.den
       IN  /\ IsRounded(ret.estimate.confidence, num, den)
           /\ IsRounded(fmtConfidence([normalizedEstimate |-> ret.estimate]), num, den)

\* C11 witness: confidence 50 at score 1/2, the average 37.5 rounds up to 38
RoundedHalfWitness ==
    /\ ret.state = "normalized"
    /\ args.estimate.confidence = 50
    /\ args.score.num * 2 = args.score.den
    /\ ret.estimate.confidence = 38

\* an upsertComment call that found a recorded comment id has returned
ReturnedWithCached == pb.pc = "returned" /\ HasCached(pb.cached)

\* C12: with a recorded comment id, publish fetches the comment; a fetched body
\* that differs from the rendered report gives one PUT on that id, no POST and
\* published = true; an identical one gives no write and published = false.
UpdatesIffBodyDiffers ==
    ReturnedWithCached
    => /\ pb.fetched # NoBody
       /\ pb.posts = 0
       /\ (pb.fetched # pb.body => pb.puts = 1 /\ pb.published)
       /\ (pb.fetched = pb.body => pb.puts = 0 /\ ~pb.published)

\* the PUT of a call writes the rendered body on the recorded comment
PutWritesRecordedComment ==
    [][(pb.pc = "put" /\ pb'.pc = "returned")
       => (/\ remote'[pb.key][pb.cached.id] = pb.body
           /\ Len(remote'[pb.key]) = Len(remote[pb.key])
           /\ myCommentsStore' = myCommentsStore)]_vars

\* C12 witness: a report with other answers replaced the published one in place
ReplacedInPlaceWitness ==
    /\ ReturnedWithCached
    /\ pb.fetched # pb.body
    /\ pb.fetched.markup = "jira"
    /\ pb.puts = 1
    /\ remote[pb.key] = <<pb.body>>

\* a review(issue, {force: false}) call has returned and the next call is
\* review(issue, {force: false}) with the same issue
SecondReviewOfSameIssue ==
    /\ rv.pc = "returned" /\ rv.op = "review" /\ ~rv.force
    /\ rv'.op = "review" /\ ~rv'.force
    /\ rv'.issue = rv.issue

\* C13: two successive review(ticket, {force: false}) calls on an unchanged
\* ticket make exactly one generate request in all and return identical Reviews.
TwoReviewsOneRequest ==
    [][SecondReviewOfSameIssue
       => (/\ rv'.pc = "returned"
           /\ rv'.result = rv.result
           /\ rv.requests + rv'.requests = 1)]_vars

\* C13 amended: the second call makes no generate request and returns the
\* Review the first returned; the first made two requests (checklist and
\* estimate) when no Review was stored and none when one was.
TwoReviewsOneComputation ==
    [][SecondReviewOfSameIssue
       => (/\ rv'.pc = "returned"
           /\ rv'.path = "cached"
           /\ rv'.requests = 0
           /\ rv'.result = rv.result
           /\ rv.requests = (IF rv.path = "fresh" THEN 2 ELSE 0)
           /\ reviewStore' = reviewStore)]_vars

\* C13 witness: the second call has returned the Review the first one computed
\* for this very issue
SecondReviewWitness ==
    /\ rv.pc = "returned" /\ rv.op = "review" /\ ~rv.force
    /\ rv.path = "cached"
    /\ rv.requests = 0
    /\ rv.result.issue = rv.issue
    /\ rv.result = reviewStore[rv.issue.key]

\* the fingerprint of the model identifier combined with the fingerprint of the
\* serialized issue
ChecksumOf(issue, model) == hash(<<model, ":", hash(serializeIssue(issue))>>)

\* C14: every Review that review() has persisted carries a checksum, the
\* fingerprint of its issue and of the model that produced it.
PersistedReviewHasChecksum ==
    \A k \in Keys :
        reviewStore[k] # NoReview
        => /\ "checksum" \in DOMAIN reviewStore[k]
           /\ reviewStore[k].checksum = ChecksumOf(reviewStore[k].issue, reviewStore[k].model)

\* C15: a checklist response that lacks a configured key makes review() fail
\* and store nothing: no stored or returned Review holds an entry without a
\* boolean value.
MissingKeyNeverStored ==
    /\ \A k \in Keys :
          reviewStore[k] # NoReview
          => \A i \in 1..Len(reviewStore[k].checklist) :
                "value" \in DOMAIN reviewStore[k].checklist[i]
    /\ (rv.pc = "returned" /\ rv.op = "review")
       => \A i \in 1..Len(rv.result.checklist) : "value" \in DOMAIN rv.result.checklist[i]

\* the sum of the configured weights
RECURSIVE TotalWeight(_)
TotalWeight(checklist) ==
    IF checklist = <<>> THEN 0 ELSE Head(checklist).weight + TotalWeight(Tail(checklist))

\* C16: no checklist response is scored under loaded settings whose checklist
\* is empty or of total weight 0, or whose scale is empty: such settings are
\* rejected at load.
ScoredOnlyUnderSoundSettings ==
    ret.state \in {"answered", "scored"}
    => /\ Len(settings.checklist) > 0
       /\ TotalWeight(settings.checklist) # 0
       /\ Len(settings.scale) > 0

\* C17: when the liveness probe fails the review command ends at once: no
\* generate request, no write of a Review, no comment, no issue taken up, in
\* every mode.
FailedProbeStopsCommand ==
    [][cmd'.probe = "failed"
       => (/\ cmd'.pc = "exited"
           /\ cmd'.started = <<>>
           /\ cmd'.generated = 0 /\ cmd'.wrote = 0 /\ cmd'.comments = 0
           /\ rv' = RvIdle /\ pb' = PbIdle
           /\ reviewStore' = reviewStore
           /\ myCommentsStore' = myCommentsStore
           /\ remote' = remote)]_vars

\* C17 witness: a bulk review with --force and --publish, over stored issues,
\* stopped by the probe
FailedProbeWitness ==
    /\ cmd.pc = "exited" /\ cmd.probe = "failed"
    /\ cmd.mode = "all" /\ cmd.force /\ cmd.publish
    /\ IssueKeys # <<>>

\* C18: a bulk review ends before the end of the list only because the
\* inference server failed; a failure of the tracker on one issue leaves the
\* rest of the list to be processed.
BatchSurvivesTrackerFailure ==
    (cmd.mode = "all" /\ cmd.pc = "aborted" /\ cmd.queue # <<>>)
    => cmd.cause = "inference"

\* the keys of s are keys of the list, in the order of the list
RECURSIVE InListOrder(_, _)
InListOrder(s, list) ==
    IF s = <<>> THEN TRUE
    ELSE IF list = <<>> THEN FALSE
    ELSE IF Head(s) = Head(list) THEN InListOrder(Tail(s), Tail(list))
    ELSE InListOrder(s, Tail(list))

\* the issues of a bulk review are taken up one at a time in list order, the
\* requests in flight being those of the issue taken up last
OneIssueAtATime ==
    /\ InListOrder(cmd.started, IssueKeys)
    /\ (InFlight > 0
        => /\ cmd.pc = "reviewing"
           /\ rv.issue = cmd.current
           /\ cmd.current.key = cmd.started[Len(cmd.started)])

\* C19: during review --all the issues are processed one at a time in list
\* order and at most one generate request is in flight.
BatchOneRequestInFlight ==
    cmd.mode = "all" => (OneIssueAtATime /\ InFlight <= 1)

\* C19 amended: during review --all the issues are processed one at a time in
\* list order and at most two generate requests are in flight, the checklist
\* request and the estimate request of the issue being processed.
BatchTwoRequestsInFlight ==
    cmd.mode = "all" => (OneIssueAtATime /\ InFlight <= 2)

\* C19 witness: both requests of the second issue of the list are in flight
SecondIssueInFlightWitness ==
    /\ cmd.mode = "all"
    /\ cmd.started = <<"K1", "K2">>
    /\ InFlight = 2

\* C20: after review --all without --force has run to its end, every issue of
\* the issue store has a Review stored under its key.
BatchReviewsEveryIssue ==
    (cmd.mode = "all" /\ ~cmd.force /\ cmd.pc = "done")
    => \A k \in DOMAIN issueStore : reviewStore[k] # NoReview

\* C27: a recomputing review() without a model option sends the checklist
\* request to settings.assistant.review.model and the estimate request to
\* settings.assistant.estimate.model.
RequestsUseConfiguredModels ==
    (rv.pc = "requests" /\ rv.modelOpt = NoModel)
    => (/\ rv.checklistModel = settings.reviewModel
        /\ rv.estimateModel = settings.estimateModel)

\* the weight of the entries of a stored checklist, all of them or the true ones
StoredWeight(checklist, onlyTrue) ==
    SumOver([i \in 1..Len(checklist) |-> checklist[i].entry.weight],
            {i \in 1..Len(checklist) : ~onlyTrue \/ ValueTruthy(checklist[i])})

\* C29: every stored Review is stored under its own key and its issue's key,
\* its score is the weighted fraction of its own checklist and its normalized
\* estimate is the normalizer applied to its own estimate and score.
StoredReviewSelfConsistent ==
    \A k \in Keys :
        LET review == reviewStore[k]
        IN  review # NoReview
            => (/\ review.key = k
                /\ review.issue.key = k
                /\ review.score.num = StoredWeight(review.checklist, TRUE)
                /\ review.score.den = StoredWeight(review.checklist, FALSE)
                /\ review.normalizedEstimate
                     = normalizeEstimate(review.score, review.estimate, settings))

\* C29 witness: a Review whose score moves the estimate (score 1/4: confidence
\* 80 becomes 50) replaced an earlier Review of the same key
MovedEstimateWitness ==
    /\ rv.pc = "returned" /\ rv.path = "fresh" /\ rv.force
    /\ reviewStore["K1"] = rv.result
    /\ rv.result.score = [num |-> 1, den |-> 4]
    /\ rv.result.normalizedEstimate.confidence = 50
    /\ rv.result.estimate.confidence = 80

\* C30: between publish calls, whether they returned, failed or were killed,
\* the mapping holds an entry for a key iff the tool has created a comment on
\* that issue, and the recorded id is that comment's.
MappingIffCommentCreated ==
    pb.pc \in PbTerminal
    => \A k \in Keys :
          /\ (HasCached(myCommentsStore[k]) <=> Len(remote[k]) > 0)
          /\ (HasCached(myCommentsStore[k]) => myCommentsStore[k].id \in 1..Len(remote[k]))

\* C21: after review --outdated without --force has run to its end, no stored
\* Review is outdated: the snapshot of each serializes as the stored issue.
OutdatedReviewsRefreshed ==
    (cmd.mode = "outdated" /\ ~cmd.force /\ cmd.pc = "done")
    => \A k \in Keys :
          (reviewStore[k] # NoReview /\ IssueGet(k) # NoIssue)
          => serializeIssue(reviewStore[k].issue) = serializeIssue(IssueGet(k))

\* C23: deserializeEdit(serializeIssue(t)) succeeds and gives back t's key and
\* summary, also when the summary or the description holds "---".
RoundTripKeepsKeyAndSummary ==
    ret.state = "roundtrip"
    => (/\ ret.edit.ok
        /\ ret.edit.meta.key = args.key
        /\ ret.edit.meta.summary = args.summary)

\* the round trip on issues whose summary does not hold the delimiter
RoundTripOfPlainSummary ==
    (ret.state = "roundtrip" /\ args.summary \notin DOMAIN Delimited)
    => (/\ ret.edit.ok
        /\ ret.edit.meta.key = args.key
        /\ ret.edit.meta.summary = args.summary)

\* C22: in the edit command a document that fails deserialization writes
\* nothing to the edit store or the issue store and the user is prompted again;
\* the edit store is written only for a changed document that deserialized, and
\* an unchanged document writes nothing.
EditPersistsOnlyDeserialized ==
    [][(ed.pc = "prompt" /\ ed' # ed)
       => LET edit == deserializeEdit(ed'.doc)
          IN  /\ issueStore' = issueStore
              /\ (ed'.doc = ed.content => (editStore' = editStore /\ ed'.pc = "done"))
              /\ ((ed'.doc # ed.content /\ ~edit.ok)
                    => (/\ editStore' = editStore
                        /\ ed'.pc = "prompt"
                        /\ ed'.reprompted))
              /\ (editStore' # editStore
                    => (ed'.doc # ed.content /\ edit.ok /\ ed'.pc = "done"))]_vars

\* C22 witness: after a document that failed and a new prompt, a corrected
\* document was saved
SavedAfterRepromptWitness ==
    /\ ed.op = "edit" /\ ed.pc = "done"
    /\ ed.reprompted
    /\ ed.saved # NoKey
    /\ editStore[ed.saved] # NoIssue
    /\ deserializeEdit(ed.doc).ok

\* C28: every entry of the edit store is stored under the key of the issue it
\* holds.
EditStoredUnderOwnKey ==
    \A k \in Keys : editStore[k] # NoIssue => editStore[k].key = k

\* what a push step does, for the edit found under the pushed key
PushStep(keyed) ==
    /\ ((ed.pc = "pushing" /\ ed'.pc = "done" /\ keyed)
          => (/\ ed'.puts = 1
              /\ tracker'[ed.key].summary = ed.local.summary
              /\ tracker'[ed.key].description = ed.local.description
              /\ issueStore'[ed.key] = ed.local
              /\ editStore'[ed.key] = NoIssue))
    /\ ((ed.pc = "pushing" /\ ed'.pc = "aborted")
          => (/\ ed'.puts = 0
              /\ tracker' = tracker
              /\ editStore' = editStore /\ editStore[ed.key] = ed.local
              /\ issueStore' = issueStore /\ issueStore[ed.key] # ed.local))
    /\ ((ed'.op = "push" /\ ed'.pc = "pushing" /\ ed.pc # "pushing")
          => (/\ ed'.local # NoIssue
              /\ serializeIssue(ed'.local) # serializeIssue(tracker[ed'.key])
              /\ tracker' = tracker /\ editStore' = editStore))
    /\ ((Quiet /\ ed' # ed /\ ed'.op = "push" /\ ed'.pc = "done")
          => (/\ (\/ ed'.local = NoIssue
                  \/ serializeIssue(ed'.local) = serializeIssue(tracker[ed'.key]))
              /\ ed'.puts = 0
              /\ tracker' = tracker /\ editStore' = editStore))

\* C26: push(key) with an edit that differs from the pulled remote writes the
\* edit upstream and then, only then, replaces the issue store entry of the
\* key by the edit and removes the edit; a failed write leaves the edit in the
\* edit store and out of the issue store; without an edit, or with one that
\* serializes as the remote, nothing is written upstream.
PushWritesThenStores == [][PushStep(TRUE)]_vars

\* the same of the edits that are stored under the key of their issue
PushOfKeyedEditWritesThenStores == [][PushStep(ed.local.key = ed.key)]_vars

\* C25: pullIssues(board) stores every issue of the board's backlog, whatever
\* their number.
PullStoresWholeBacklog ==
    pull.pc = "done" => pull.stored = pull.backlog

\* what pullIssues stores: the first maxRequests * perPage issues of the backlog
PullStoresFirstPages ==
    pull.pc = "done"
    => pull.stored = (IF pull.backlog <= MaxRequests * PerPage
                      THEN pull.backlog ELSE MaxRequests * PerPage)

\* a step of review() that stores the Review it has just computed under k
RecomputesReview(k) ==
    /\ rv.pc = "requests"
    /\ rv'.pc = "returned"
    /\ rv.issue.key = k
    /\ reviewStore'[k] = rv'.result
    /\ reviewStore'[k] # NoReview

\* a step of karen remove review k, or of karen remove review --all
RemovesReview(k) ==
    /\ ed' # ed
    /\ ed'.op = "remove"
    /\ ed'.resource = "review"
    /\ ed'.all \/ ed'.key = k
    /\ reviewStore'[k] = NoReview

\* C24: whatever the commands run (pull, edit, push, diff, list, publish,
\* review, remove), the Review stored under a key changes only in a step of
\* review() that stores a newly computed Review under that key, or in a
\* remove / remove --all of reviews; no other step creates, alters or deletes
\* a stored Review.
StoredReviewFrame ==
    [][\A k \in Keys : reviewStore'[k] # reviewStore[k]
                          => RecomputesReview(k) \/ RemovesReview(k)]_vars

\* a Review that is still stored after its issue was removed from the issue store
ReviewOutlivesIssueWitness ==
    /\ ed.op = "remove"
    /\ ed.resource = "issue"
    /\ ed.pc = "done"
    /\ \E k \in Keys : reviewStore[k] # NoReview /\ issueStore[k] = NoIssue


====
